---------------------------- MODULE Spec2Model ----------------------------
(***************************************************************************)
(* Model of the data-insight agent's analysis pipeline:                    *)
(*   ai_schema.py   AIParsedInstruction / Operation validation             *)
(*   analysis.py    Analysis: preparation stages, handlers, analyse        *)
(*   utils.py       simple_linear_regression, returning_metadata           *)
(*   agent_brain.py DataInsightEngine.analyse (response assembly)          *)
(*                                                                         *)
(* One request is followed from the raw instruction returned by the        *)
(* language model to the task result handed to the protocol layer.         *)
(***************************************************************************)
EXTENDS Integers, Sequences, FiniteSets, TLC

(***************************************************************************)
(* Generic helpers                                                         *)
(***************************************************************************)
Range(s) == {s[i] : i \in 1..Len(s)}

RECURSIVE SumSeq(_)
SumSeq(s) == IF s = <<>> THEN 0 ELSE Head(s) + SumSeq(Tail(s))

RECURSIVE MapCount(_, _)
\* number of positions of s whose element is in S
MapCount(s, S) == IF s = <<>> THEN 0
                  ELSE (IF Head(s) \in S THEN 1 ELSE 0) + MapCount(Tail(s), S)

\* all sequences over S of length lo..hi
SeqsBetween(S, lo, hi) == UNION {[1..n -> S] : n \in lo..hi}

(***************************************************************************)
(* Cells and datasets (pandas DataFrame).  A cell is <<kind, value>>:      *)
(* a number, a string (identified by a small integer) or a missing value.  *)
(* A dataset keeps its ordered column labels, the dtype class of every     *)
(* column and its rows; every row keeps the index label it was loaded with.*)
(***************************************************************************)
Num(v) == <<"n", v>>
Str(k) == <<"s", k>>
Null   == <<"null", 0>>

IsNum(c)  == c[1] = "n"
IsStr(c)  == c[1] = "s"
IsNull(c) == c[1] = "null"

Row(i, cells) == [idx |-> i, cells |-> cells]

ColSet(d) == Range(d.cols)
NRows(d)  == Len(d.rows)

\* the values of column c, in row order
Column(d, c) == [i \in 1..NRows(d) |-> d.rows[i].cells[c]]

\* DataFrame.select_dtypes(include="number").columns
NumericCols(d) == SelectSeq(d.cols, LAMBDA c : d.dtype[c] = "number")

\* DataFrame.empty: any axis of length 0
IsEmptyDf(d) == Len(d.cols) = 0 \/ Len(d.rows) = 0

\* the non-missing numeric values of a column, in row order
RECURSIVE NumValues(_)
NumValues(col) ==
    IF col = <<>> THEN <<>>
    ELSE IF IsNum(Head(col)) THEN <<Head(col)[2]>> \o NumValues(Tail(col))
    ELSE NumValues(Tail(col))


(***************************************************************************)
(* Outcome of a call: a returned value, or an exception that left the call.*)
(***************************************************************************)
Returned(v)  == [exc |-> "none", val |-> v]
Raised(e)    == [exc |-> e, val |-> <<>>]
HasRaised(r) == r.exc # "none"

(***************************************************************************)
(* Data preparation stages (analysis.py 38-94).  Absent parameters are     *)
(* the empty sequence (lists, dicts) or "None" (strings).                  *)
(***************************************************************************)
KeepRows(d, P(_)) == [d EXCEPT !.rows = SelectSeq(d.rows, P)]

\* one filter constraint: df[df[key].isin(value)] or df[df[key] == value]
FilterMatches(cell, f) ==
    IF f.isList THEN cell \in Range(f.vals) ELSE cell = f.vals[1]

RECURSIVE FilterBy(_, _)
FilterBy(d, filters) ==
    IF filters = <<>> THEN d
    ELSE LET f == Head(filters)
         IN IF f.key \notin ColSet(d)
            THEN FilterBy(d, Tail(filters))
            ELSE FilterBy(KeepRows(d, LAMBDA r : FilterMatches(r.cells[f.key], f)),
                          Tail(filters))

\* a projection that keeps the dataset's own column order
FocusColumnsSourceOrder(d, cols) ==
    IF cols = <<>> THEN d
    ELSE LET existing_cols == SelectSeq(d.cols, LAMBDA c : c \in Range(cols))
         IN [cols  |-> existing_cols,
             dtype |-> [c \in Range(existing_cols) |-> d.dtype[c]],
             rows  |-> [i \in 1..NRows(d) |->
                          Row(d.rows[i].idx,
                              [c \in Range(existing_cols) |-> d.rows[i].cells[c]])]]

FocusColumns(d, cols) ==
    IF cols = <<>> THEN d
    ELSE LET existing_cols == SelectSeq(cols, LAMBDA c : c \in ColSet(d))
         IN [cols  |-> existing_cols,
             dtype |-> [c \in Range(existing_cols) |-> d.dtype[c]],
             rows  |-> [i \in 1..NRows(d) |->
                          Row(d.rows[i].idx,
                              [c \in Range(existing_cols) |-> d.rows[i].cells[c]])]]

\* a forward fill that reaches one row down only
FfillOneStep(d, c, i) ==
    IF ~IsNull(d.rows[i].cells[c]) \/ i = 1 THEN d.rows[i].cells[c]
    ELSE d.rows[i - 1].cells[c]

SetMax(S) == CHOOSE x \in S : \A y \in S : y <= x
SetMin(S) == CHOOSE x \in S : \A y \in S : x <= y

\* DataFrame.ffill / bfill: the nearest non-missing value above / below
FfillCell(d, c, i) ==
    LET prior == {j \in 1..i : ~IsNull(d.rows[j].cells[c])}
    IN IF prior = {} THEN Null ELSE d.rows[SetMax(prior)].cells[c]

BfillCell(d, c, i) ==
    LET later == {j \in i..NRows(d) : ~IsNull(d.rows[j].cells[c])}
    IN IF later = {} THEN Null ELSE d.rows[SetMin(later)].cells[c]

\* the literal handed to DataFrame.fillna is a str of the instruction
FillLiteral == Str(3)

MapCells(d, F(_, _)) ==
    [d EXCEPT !.rows = [i \in 1..NRows(d) |->
        Row(d.rows[i].idx, [c \in ColSet(d) |-> F(c, i)])]]

\* fillna(str): a numeric column that receives the string becomes object
Fillna(d) ==
    LET hit(c) == \E i \in 1..NRows(d) : IsNull(d.rows[i].cells[c])
        filled == MapCells(d, LAMBDA c, i :
                     IF IsNull(d.rows[i].cells[c]) THEN FillLiteral
                     ELSE d.rows[i].cells[c])
    IN [filled EXCEPT !.dtype =
           [c \in ColSet(d) |-> IF hit(c) THEN "object" ELSE d.dtype[c]]]

Fill(d, filling) ==
    IF filling = "None" THEN d
    ELSE IF filling = "ffill" THEN MapCells(d, LAMBDA c, i : FfillCell(d, c, i))
    ELSE IF filling = "bfill" THEN MapCells(d, LAMBDA c, i : BfillCell(d, c, i))
    ELSE Fillna(d)

HasNull(d, r) == \E c \in ColSet(d) : IsNull(r.cells[c])

\* DataFrame.drop_duplicates(): the first of every group of equal rows is kept
DropDuplicates(d) ==
    LET keep == {i \in 1..NRows(d) :
                   \A j \in 1..(i - 1) : d.rows[j].cells # d.rows[i].cells}
    IN [d EXCEPT !.rows = SelectSeq(d.rows,
          LAMBDA r : \E i \in keep : d.rows[i].idx = r.idx)]

Drop(d, action) ==
    IF action = "None" THEN d
    ELSE IF action = "drop null" THEN KeepRows(d, LAMBDA r : ~HasNull(d, r))
    ELSE IF action = "drop duplicates" THEN DropDuplicates(d)
    ELSE d

\* str.lower() on the tokens the instruction may carry
Lower(t) == IF t = "DESCENDING" THEN "descending"
            ELSE IF t = "Ascending" THEN "ascending" ELSE t

\* a scan in which "ascending" does not undo an earlier "descending"
RECURSIVE SortScanSticky(_, _, _, _)
SortScanSticky(d, params, ascending, cols) ==
    IF params = <<>> THEN [ascending |-> ascending, cols |-> cols]
    ELSE LET param == Head(params)
         IN IF Lower(param) = "descending"
               THEN SortScanSticky(d, Tail(params), FALSE, cols)
            ELSE IF Lower(param) = "ascending"
               THEN SortScanSticky(d, Tail(params), ascending, cols)
            ELSE IF param \in ColSet(d)
               THEN SortScanSticky(d, Tail(params), ascending, Append(cols, param))
            ELSE SortScanSticky(d, Tail(params), ascending, cols)

\* the scan of sort_params (analysis.py 83-91): <<ascending, cols>>
RECURSIVE SortScan(_, _, _, _)
SortScan(d, params, ascending, cols) ==
    IF params = <<>> THEN [ascending |-> ascending, cols |-> cols]
    ELSE LET param == Head(params)
         IN IF Lower(param) = "descending"
               THEN SortScan(d, Tail(params), FALSE, cols)
            ELSE IF Lower(param) = "ascending"
               THEN SortScan(d, Tail(params), TRUE, cols)
            ELSE IF param \in ColSet(d)
               THEN SortScan(d, Tail(params), ascending, Append(cols, param))
            ELSE SortScan(d, Tail(params), ascending, cols)

\* strict order of two cells of one column; missing values go last
CellBefore(c1, c2, ascending) ==
    IF IsNull(c1) THEN FALSE
    ELSE IF IsNull(c2) THEN TRUE
    ELSE IF ascending THEN c1[2] < c2[2] ELSE c1[2] > c2[2]

RECURSIVE RowBefore(_, _, _, _)
RowBefore(r1, r2, keys, ascending) ==
    IF keys = <<>> THEN FALSE
    ELSE LET k == Head(keys)
         IN \/ CellBefore(r1.cells[k], r2.cells[k], ascending)
            \/ /\ ~CellBefore(r2.cells[k], r1.cells[k], ascending)
               /\ RowBefore(r1, r2, Tail(keys), ascending)

\* comparing a number with a str raises TypeError inside sort_values
MixedKey(d, k) ==
    /\ \E i \in 1..NRows(d) : IsNum(d.rows[i].cells[k])
    /\ \E i \in 1..NRows(d) : IsStr(d.rows[i].cells[k])

\* DataFrame.sort_values(by, ascending): the orders it may return.  With
\* one key the default kind is quicksort, which promises nothing about
\* ties; with several keys the lexsort used is stable.
SortValues(d, by, ascending) ==
    LET n == NRows(d)
        sorted(p) == \A i, j \in 1..n : i < j =>
                        ~RowBefore(d.rows[p[j]], d.rows[p[i]], by, ascending)
        stable(p) == \A i, j \in 1..n : i < j =>
                        (RowBefore(d.rows[p[i]], d.rows[p[j]], by, ascending)
                           \/ p[i] < p[j])
    IN IF \E k \in Range(by) : MixedKey(d, k)
       THEN {Raised("TypeError")}
       ELSE {Returned([d EXCEPT !.rows = [i \in 1..n |-> d.rows[p[i]]]]) :
               p \in {q \in Permutations(1..n) :
                        sorted(q) /\ (Len(by) > 1 => stable(q))}}

Sorting(d, sort_params) ==
    IF sort_params = <<>> THEN {Returned(d)}
    ELSE LET scan == SortScan(d, sort_params, TRUE, <<>>)
         IN IF scan.cols # <<>>
            THEN SortValues(d, scan.cols, scan.ascending)
            ELSE {Returned(d)}

(***************************************************************************)
(* Python dicts keep insertion order: a dict is its key sequence and its   *)
(* values.  The error map self.errors is a dict as well.                   *)
(***************************************************************************)
EmptyDict == [keys |-> <<>>, vals |-> <<>>]

HasKey(d, k) == k \in Range(d.keys)

DictSet(d, k, v) ==
    [keys |-> IF HasKey(d, k) THEN d.keys ELSE Append(d.keys, k),
     vals |-> [x \in (DOMAIN d.vals) \cup {k} |-> IF x = k THEN v ELSE d.vals[x]]]

\* dict.update(other)
RECURSIVE DictUpdateFrom(_, _, _)
DictUpdateFrom(d, other, ks) ==
    IF ks = <<>> THEN d
    ELSE DictUpdateFrom(DictSet(d, Head(ks), other.vals[Head(ks)]), other, Tail(ks))

DictUpdate(d, other) == DictUpdateFrom(d, other, other.keys)

\* dict.pop(key, None)
DictPop(d, k) ==
    [keys |-> SelectSeq(d.keys, LAMBDA x : x # k),
     vals |-> [x \in (DOMAIN d.vals) \ {k} |-> d.vals[x]]]

\* what a handler hands back to the dispatch loop
RetNone     == [kind |-> "None"]
RetDict(d)  == [kind |-> "dict", dict |-> d]
RetList(l)  == [kind |-> "list", items |-> l]
RetStr(t)   == [kind |-> "str", text |-> t]

\* Python truthiness of a handler's return value
Truthy(ret) ==
    \/ ret.kind = "dict" /\ ret.dict.keys # <<>>
    \/ ret.kind = "list" /\ ret.items # <<>>
    \/ ret.kind = "str"

\* a finished call: the exception that left it (or "none"), what it
\* returned and the error map as the call left it
Call(exc, ret, errs) == [exc |-> exc, ret |-> ret, errs |-> errs]

(***************************************************************************)
(* Numeric handlers (analysis.py 202-261, utils.py 176-188)                *)
(***************************************************************************)
RECURSIVE Insert(_, _)
Insert(x, s) == IF s = <<>> THEN <<x>>
                ELSE IF x <= Head(s) THEN <<x>> \o s
                ELSE <<Head(s)>> \o Insert(x, Tail(s))

RECURSIVE SortInts(_)
SortInts(s) == IF s = <<>> THEN <<>> ELSE Insert(Head(s), SortInts(Tail(s)))

\* DataFrame.describe(include="all").to_dict() for one column
DescribeColumn(d, c) ==
    LET col  == Column(d, c)
        vals == SortInts(NumValues(col))
        nn   == {i \in 1..Len(col) : ~IsNull(col[i])}
    IN [count  |-> Cardinality(nn),
        unique |-> IF d.dtype[c] = "number" THEN Null
                   ELSE Num(Cardinality({col[i] : i \in nn})),
        min    |-> IF d.dtype[c] = "number" /\ vals # <<>>
                   THEN Num(vals[1]) ELSE Null,
        max    |-> IF d.dtype[c] = "number" /\ vals # <<>>
                   THEN Num(vals[Len(vals)]) ELSE Null]

\* DataFrame.describe raises ValueError on a frame without columns
Describe(d) ==
    IF Len(d.cols) = 0 THEN Raised("ValueError")
    ELSE Returned([keys |-> d.cols,
                   vals |-> [c \in ColSet(d) |-> DescribeColumn(d, c)]])

HandleSummary(d, errs) ==
    LET r == Describe(d)
    IN IF HasRaised(r) THEN Call(r.exc, RetNone, errs)
       ELSE Call("none", RetDict(r.val), errs)

\* the outer quartiles only
OuterQuartiles == <<25, 75>>

\* --- math ---------------------------------------------------------------
\* percentiles are kept in hundredths: 25 is 0.25
DefaultPercentiles == <<25, 50, 75>>

IsQuantile(op) == op.op = "quantile"

\* op.percentiles or [0.25, 0.5, 0.75]
Percentiles(op) ==
    IF op.pkind = "None" \/ op.pcts = <<>> \/ (op.pkind = "scalar" /\ op.pcts[1] = 0)
    THEN [pkind |-> "list", pcts |-> DefaultPercentiles]
    ELSE [pkind |-> op.pkind, pcts |-> op.pcts]

\* linear interpolation between the two nearest order statistics, in
\* hundredths of the data unit; NaN for a column without values
QuantileValue(col, p) ==
    LET v  == SortInts(NumValues(col))
        n  == Len(v)
        h  == p * (n - 1)
        lo == (h \div 100) + 1
        fr == h % 100
    IN IF n = 0 THEN Null
       ELSE IF fr = 0 THEN <<"q", 100 * v[lo]>>
       ELSE <<"q", 100 * v[lo] + fr * (v[lo + 1] - v[lo])>>

\* numeric_df.quantile(percentiles, numeric_only=True).to_dict()
QuantileDict(d, pc) ==
    LET nc == NumericCols(d)
    IN IF \E i \in 1..Len(pc.pcts) : pc.pcts[i] < 0 \/ pc.pcts[i] > 100
       THEN Raised("ValueError")
       ELSE IF pc.pkind = "scalar"
       THEN Returned([keys |-> nc,
                      vals |-> [c \in Range(nc) |-> QuantileValue(Column(d, c), pc.pcts[1])]])
       ELSE Returned([keys |-> nc,
                      vals |-> [c \in Range(nc) |->
                                  [keys |-> pc.pcts,
                                   vals |-> [p \in Range(pc.pcts) |->
                                               QuantileValue(Column(d, c), p)]]]])

\* one scalar aggregate over the non-missing values of a column
Aggregate(op, col) ==
    LET v == SortInts(NumValues(col))
    IN IF op = "sum" THEN Num(SumSeq(v))
       ELSE IF op = "count" THEN Num(Len(v))
       ELSE IF v = <<>> THEN Null
       ELSE IF op = "min" THEN Num(v[1])
       ELSE Num(v[Len(v)])

\* numeric_df.agg(ops).to_dict(): column -> (operation -> value); agg has
\* nothing to concatenate, and raises, on a frame without columns
AggDict(d, ops) ==
    LET nc == NumericCols(d)
    IN IF nc = <<>> THEN Raised("ValueError")
       ELSE Returned([keys |-> nc,
                      vals |-> [c \in Range(nc) |->
                                  [keys |-> ops,
                                   vals |-> [o \in Range(ops) |->
                                               Aggregate(o, Column(d, c))]]]])

\* the loop of handle_math over math_ops: <<result, ops, exc>>
RECURSIVE MathScan(_, _, _, _)
MathScan(d, math_ops, result, ops) ==
    IF math_ops = <<>> THEN [result |-> result, ops |-> ops, exc |-> "none"]
    ELSE LET op == Head(math_ops)
         IN IF IsQuantile(op)
            THEN LET q == QuantileDict(d, Percentiles(op))
                 IN IF HasRaised(q)
                    THEN [result |-> result, ops |-> ops, exc |-> q.exc]
                    ELSE MathScan(d, Tail(math_ops),
                                  DictSet(result, "quantile", q.val), ops)
            ELSE MathScan(d, Tail(math_ops), result, Append(ops, op.op))

HandleMath(d, math_ops, errs) ==
    IF math_ops = <<>> THEN Call("none", RetDict(EmptyDict), errs)
    ELSE LET scan == MathScan(d, math_ops, EmptyDict, <<>>)
             agg  == IF scan.exc = "none" /\ scan.ops # <<>>
                     THEN AggDict(d, scan.ops) ELSE Returned(EmptyDict)
             exc  == IF scan.exc # "none" THEN scan.exc ELSE agg.exc
             result == IF exc = "none" THEN DictUpdate(scan.result, agg.val)
                       ELSE scan.result
         IN Call("none",
                 RetDict(DictSet(EmptyDict, "math", result)),
                 IF exc = "none" THEN errs
                 ELSE DictSet(errs, "math_error", "Math operation failed"))

\* --- correlation --------------------------------------------------------
\* the last method of a list instead of the first
CorrMethodLast(corr) ==
    IF corr.kind = "nested" THEN "list" ELSE corr.methods[Len(corr.methods)]

\* corr[0] if isinstance(corr, list) else corr; a nested list leaves a list
CorrMethod(corr) ==
    IF corr.kind = "single" THEN corr.methods[1]
    ELSE IF corr.kind = "list" THEN corr.methods[1]
    ELSE "list"

CorrMethods == {"pearson", "kendall", "spearman"}

\* df.corr(numeric_only=True, method=method).to_dict(): the matrix is kept
\* as the method that computed it and the columns it spans; DataFrame.corr
\* raises ValueError for a method that is none of the three names
HandleCorrelation(d, corr, errs) ==
    LET method == CorrMethod(corr)
    IN IF method \notin CorrMethods
       THEN Call("none", RetDict(EmptyDict),
                 DictSet(errs, "correlation_error", "Correlation analysis failed"))
       ELSE Call("none",
                 RetDict(DictSet(EmptyDict, "correlation",
                                 [method |-> method, columns |-> NumericCols(d)])),
                 errs)

\* --- regression ---------------------------------------------------------
RECURSIVE Dot(_, _)
Dot(x, y) == IF x = <<>> THEN 0 ELSE Head(x) * Head(y) + Dot(Tail(x), Tail(y))

\* np.polyfit(x, y, 1): slope and intercept as exact fractions <<num, den>>;
\* a rank-deficient system (den = 0) is still answered, with a warning
PolyFit1(x, y) ==
    LET n   == Len(x)
        den == n * Dot(x, x) - SumSeq(x) * SumSeq(x)
    IN [slope     |-> <<n * Dot(x, y) - SumSeq(x) * SumSeq(y), den>>,
        intercept |-> <<SumSeq(y) * Dot(x, x) - SumSeq(x) * Dot(x, y), den>>]

\* utils.simple_linear_regression: KeyError for a missing column, an error
\* mapping for empty data, an exception out of polyfit for values that are
\* not all numbers
SimpleLinearRegression(d, x_col, y_col) ==
    IF x_col \notin ColSet(d) \/ y_col \notin ColSet(d) THEN Raised("KeyError")
    ELSE LET x == Column(d, x_col)
             y == Column(d, y_col)
         IN IF Len(x) = 0 \/ Len(y) = 0
            THEN Returned([error |-> "Empty data for regression."])
            ELSE IF \/ d.dtype[x_col] # "number" \/ d.dtype[y_col] # "number"
                    \/ \E i \in 1..Len(x) : ~IsNum(x[i]) \/ ~IsNum(y[i])
            THEN Raised("polyfit")
            ELSE Returned([error |-> "None"] @@ PolyFit1(NumValues(x), NumValues(y)))

\* a handler that stores whatever the fit returned, the error mapping too
HandleRegressionUnchecked(d, regres, errs) ==
    IF ~regres.present THEN Call("none", RetDict(EmptyDict), errs)
    ELSE LET regression == SimpleLinearRegression(d, regres.col_x, regres.col_y)
         IN IF HasRaised(regression)
            THEN Call("none", RetDict(EmptyDict),
                      DictSet(errs, "regression_error", "Regression analysis failed"))
            ELSE Call("none", RetDict(DictSet(EmptyDict, "regression", regression.val)),
                      errs)

HandleRegression(d, regres, errs) ==
    IF ~regres.present THEN Call("none", RetDict(EmptyDict), errs)
    ELSE LET regression == SimpleLinearRegression(d, regres.col_x, regres.col_y)
         IN IF HasRaised(regression)
            THEN Call("none", RetDict(EmptyDict),
                      DictSet(errs, "regression_error", "Regression analysis failed"))
            ELSE IF regression.val.error # "None"
            THEN Call("none", RetDict(EmptyDict),
                      DictSet(errs, "regression_error", regression.val.error))
            \* result["regression"] = regression is the last statement of
            \* the try block and no return follows it: the call returns None
            ELSE Call("none", RetNone, errs)

\* --- anomaly ------------------------------------------------------------
ZThreshold == 3

\* abs((x - mean) / std) > 3 with the sample standard deviation, without
\* division: (n-1) * (n*x - S)^2 > 9 * sum((n*x_i - S)^2)
RECURSIVE SumSqDev(_, _, _)
SumSqDev(v, n, S) ==
    IF v = <<>> THEN 0
    ELSE (n * Head(v) - S) * (n * Head(v) - S) + SumSqDev(Tail(v), n, S)

ZFlagged(col, i) ==
    LET v == NumValues(col)
        n == Len(v)
        S == SumSeq(v)
        x == col[i][2]
    IN /\ IsNum(col[i])
       /\ n >= 2
       /\ (n - 1) * (n * x - S) * (n * x - S)
             > ZThreshold * ZThreshold * SumSqDev(v, n, S)

\* numeric_df[z_scores.abs() > 3].dropna(): dropna keeps the rows without
\* any NaN, that is the rows flagged in every numeric column
AnomalyRows(d) ==
    LET nc == NumericCols(d)
    IN {i \in 1..NRows(d) : \A c \in Range(nc) : ZFlagged(Column(d, c), i)}

\* anomalies.to_dict(): column -> {index label -> value}
HandleAnomaly(d, errs) ==
    LET nc   == NumericCols(d)
        kept == AnomalyRows(d)
    IN Call("none",
            RetDict(DictSet(EmptyDict, "zscore_anomalies",
                [keys |-> nc,
                 vals |-> [c \in Range(nc) |->
                             {<<d.rows[i].idx, d.rows[i].cells[c][2]>> : i \in kept}]])),
            errs)

(***************************************************************************)
(* Visualization (analysis.py 96-200, 263-279)                             *)
(***************************************************************************)
\* self.ensure_bucket_exists() at line 112, before the try block: class
\* Analysis defines no attribute of that name, so the lookup raises
EnsureBucketExists == Raised("AttributeError")

\* pd.to_numeric over every column raises on a str that is not a number
ToNumericFails(d) ==
    \E i \in 1..NRows(d) : \E c \in ColSet(d) : IsStr(d.rows[i].cells[c])

\* the column precondition of each chart kind once every column is numeric
ChartPrecondition(d, chart_type) ==
    IF chart_type = "scatter" THEN Len(d.cols) >= 2 ELSE Len(d.cols) >= 1

\* lines 114-200: an error text, or {chart_type: url}
RenderChart(d, chart_type) ==
    IF ToNumericFails(d) \/ ~ChartPrecondition(d, chart_type)
    THEN RetStr("visual_error: Visualization failed")
    ELSE RetDict(DictSet(EmptyDict, chart_type, <<"url", chart_type>>))

Visualize(d, chart_type) ==
    IF HasRaised(EnsureBucketExists) THEN Raised(EnsureBucketExists.exc)
    ELSE Returned(RenderChart(d, chart_type))

\* the loop of handle_visualization: charts, visual_error, exception
RECURSIVE VisualScan(_, _, _, _)
VisualScan(d, chart_types, charts, visual_error) ==
    IF chart_types = <<>>
    THEN [charts |-> charts, visual_error |-> visual_error, exc |-> "none"]
    ELSE LET chart_or_error == Visualize(d, Head(chart_types))
         IN IF HasRaised(chart_or_error)
            THEN [charts |-> charts, visual_error |-> visual_error,
                  exc |-> chart_or_error.exc]
            ELSE IF chart_or_error.val.kind = "str"
            THEN VisualScan(d, Tail(chart_types), charts,
                            Append(visual_error, chart_or_error.val.text))
            ELSE VisualScan(d, Tail(chart_types),
                            Append(charts, chart_or_error.val.dict), visual_error)

HandleVisualization(d, visuals, errs) ==
    IF visuals = <<>> THEN Call("none", RetNone, errs)
    ELSE LET scan == VisualScan(d, visuals, <<>>, <<>>)
         IN IF scan.exc # "none" THEN Call(scan.exc, RetNone, errs)
            ELSE Call("none", RetList(scan.charts),
                      IF scan.visual_error # <<>>
                      THEN DictSet(errs, "visual_error", scan.visual_error)
                      ELSE errs)

(***************************************************************************)
(* The structured instruction (ai_schema.py)                               *)
(***************************************************************************)
Intents == {"summary", "math", "correlation", "regression", "anomaly",
            "visualization", "unknown"}

NoConfidence == <<"None", 0>>
Confidence(v) == <<"f", v>>

NoCorrelation == [kind |-> "None", methods |-> <<>>]
NoRegression  == [present |-> FALSE, col_x |-> "", col_y |-> ""]
NoOperations  == [present |-> FALSE, math |-> <<>>, correlation |-> NoCorrelation,
                  regression |-> NoRegression, visualization |-> <<>>]

\* Operation.normalize_empty turns every empty field into None; the fields
\* of the model already write None and the empty value alike
ValidOperation(o) ==
    [present |-> TRUE, math |-> o.math, correlation |-> o.correlation,
     regression |-> o.regression, visualization |-> o.visualization]

\* AIParsedInstruction.normalize_empty runs before validation on every
\* supplied field: an empty intent list becomes None and fails the list
\* type; a supplied confidence of 0 becomes None; operations given as {}
\* become None.  A field that is not supplied keeps its default unvalidated.
InstructionValid(raw) == raw.intent # <<>>

ValidatedConfidence(c) ==
    IF c[1] = "absent" THEN Confidence(0)
    ELSE IF c[2] = 0 THEN NoConfidence
    ELSE Confidence(c[2])

ParsedInstruction(raw) ==
    [intent               |-> raw.intent,
     operations           |-> IF raw.operations.kind = "given"
                              THEN ValidOperation(raw.operations)
                              ELSE NoOperations,
     focus_columns        |-> raw.focus_columns,
     filters              |-> raw.filters,
     fill                 |-> IF raw.fill = "" THEN "None" ELSE raw.fill,
     drop                 |-> raw.drop,
     sort                 |-> raw.sort,
     analysis_explanation |-> IF raw.analysis_explanation = "" THEN "None"
                              ELSE raw.analysis_explanation,
     confidence           |-> ValidatedConfidence(raw.confidence)]

(***************************************************************************)
(* Analysis.analyse (analysis.py 281-355)                                  *)
(***************************************************************************)
\* data.intent == "unknown" compares the intent list with a str: in Python
\* a list is never equal to a str, whatever the list holds
ListEqualsStr(list, text) == FALSE

\* an entry check that also looks at the operations
SkipWithoutOperations(d) ==
    \/ d.intent = <<>>
    \/ ~d.operations.present

\* line 286
SkipCondition(d) ==
    \/ d.intent = <<>>
    \/ (ListEqualsStr(d.intent, "unknown") /\ d.confidence = Confidence(0))

\* a chain that filters before it projects
PipelineOrderFilterFirst ==
    <<"filter_by", "focus_columns", "fill", "drop", "sorting">>

\* lines 296-301: the stages in the order the pipe chain applies them
PipelineOrder == <<"focus_columns", "filter_by", "fill", "drop", "sorting">>

\* one stage applied to the value the previous stage returned: the set of
\* outcomes it may have
ApplyStage(name, d, ins) ==
    IF name = "focus_columns" THEN {Returned(FocusColumns(d, ins.focus_columns))}
    ELSE IF name = "filter_by" THEN {Returned(FilterBy(d, ins.filters))}
    ELSE IF name = "fill" THEN {Returned(Fill(d, ins.fill))}
    ELSE IF name = "drop" THEN {Returned(Drop(d, ins.drop))}
    ELSE Sorting(d, ins.sort)

\* stages that work in place: the caller's dataset becomes the stage's result
StageInPlace(passed, out) ==
    IF HasRaised(out) THEN passed ELSE out.val

\* the dataset object the caller passed to analyse, after a stage has run:
\* df[...], ffill(), bfill(), fillna(), dropna(), drop_duplicates() and
\* sort_values() all return a new object, none is called with inplace
CallerDataset(passed, out) == passed

\* a driver that goes on with what the stages before the failure produced
DfKeepsPartial(before, partial, out) ==
    IF HasRaised(out) THEN partial ELSE out.val

\* the df the rest of analyse works on when the chain has ended: the
\* assignment of line 296 happens only if no stage raised; the except
\* clause of lines 303-305 leaves df as it was before the pipeline
DfAfterPipeline(before, partial, out) ==
    IF HasRaised(out) THEN before ELSE out.val

\* a handler table with an entry for every intent of the schema
EveryIntent == Intents

\* lines 307-332: the keys of intent_handlers
HandlerIntents == {"summary", "math", "correlation", "regression", "anomaly",
                   "visualization"}

\* intent_handlers[intent](): the lambdas read data.operations.<field>
\* before any handler (and any try block) is entered; with operations
\* None that read raises AttributeError
InvokeHandler(intent, d, ins, errs) ==
    IF intent = "summary" THEN HandleSummary(d, errs)
    ELSE IF intent = "anomaly"
    THEN (IF "anomaly" \in Range(ins.intent) THEN HandleAnomaly(d, errs)
          ELSE Call("none", RetNone, errs))
    ELSE IF ~ins.operations.present THEN Call("AttributeError", RetNone, errs)
    ELSE IF intent = "math"
    THEN (IF ins.operations.math # <<>>
          THEN HandleMath(d, ins.operations.math, errs)
          ELSE Call("none", RetNone, errs))
    ELSE IF intent = "correlation"
    THEN (IF ins.operations.correlation.kind # "None"
          THEN HandleCorrelation(d, ins.operations.correlation, errs)
          ELSE Call("none", RetNone, errs))
    ELSE IF intent = "regression"
    THEN (IF ins.operations.regression.present
          THEN HandleRegression(d, ins.operations.regression, errs)
          ELSE Call("none", RetNone, errs))
    ELSE (IF ins.operations.visualization # <<>>
          THEN HandleVisualization(d, ins.operations.visualization, errs)
          ELSE Call("none", RetNone, errs))

\* lines 341-345
MergeResult(acc, result) ==
    IF ~Truthy(result) THEN acc
    ELSE IF result.kind = "list" THEN DictSet(acc, "visuals generated", result.items)
    ELSE DictUpdate(acc, result.dict)

\* a strip that removes the original text input only
PopOriginalOnly(md) == DictPop(md, "original_text_input")

\* utils.returning_metadata
ReturningMetadata(md) == DictPop(DictPop(md, "original_text_input"), "text_instruction")

\* lines 346-353
CompletedMetadata(md, d, ins) ==
    DictSet(DictSet(DictSet(DictSet(md,
        "processed_columns", d.cols),
        "num_rows", NRows(d)),
        "confidence", ins.confidence),
        "status", "completed")

(***************************************************************************)
(* DataInsightEngine (agent_brain.py)                                      *)
(***************************************************************************)
\* extract_metadata plus the original_text_input set at lines 106-110
RequestMetadata(req) ==
    LET base == DictSet(EmptyDict, "original_text_input", "text")
        txt  == IF req.has_text THEN DictSet(base, "text_instruction", "text")
                ELSE base
    IN DictSet(DictSet(txt, "columns", req.df.cols), "shape",
               <<NRows(req.df), Len(req.df.cols)>>)

DictGet(d, k, default) == IF HasKey(d, k) THEN d.vals[k] ELSE default

StatNames == <<"mean", "median", "mode", "min", "max", "std">>

\* generate_explanation: the sections of the text it writes
GenerateExplanation(analysed) ==
    LET math == DictGet(analysed, "math", EmptyDict)
        corr == DictGet(analysed, "correlation", [method |-> "", columns |-> <<>>])
        anom == DictGet(analysed, "zscore_anomalies", EmptyDict)
        vis  == DictGet(analysed, "visuals generated", <<>>)
    IN <<"header">>
       \o SelectSeq(StatNames, LAMBDA st : HasKey(math, st))
       \o (IF HasKey(math, "quantile") /\ math.vals["quantile"].keys # <<>>
           THEN <<"quantiles">> ELSE <<>>)
       \o (IF corr.columns # <<>> THEN <<"correlations">> ELSE <<>>)
       \o (IF HasKey(analysed, "regression") THEN <<"regression">> ELSE <<>>)
       \o (IF \E c \in Range(anom.keys) : anom.vals[c] # {}
           THEN <<"anomalies">> ELSE <<>>)
       \o (IF vis # <<>> THEN <<"visuals">> ELSE <<>>)

TextPart(t) == [kind |-> "text", text |-> t, file_url |-> "None"]
FilePart(u) == [kind |-> "file", text |-> "None", file_url |-> u]

\* lines 139-147: one artifact per generated visual
ArtifactOf(visual) ==
    [name |-> visual.keys[1], parts |-> <<FilePart(visual.vals[visual.keys[1]])>>]

\* lines 124-163
TaskResultOf(analysed, errs) ==
    LET visuals == DictGet(analysed, "visuals generated", <<>>)
    IN [state     |-> "completed",
        parts     |-> <<TextPart(GenerateExplanation(analysed))>>,
        artifacts |-> [k \in 1..Len(visuals) |-> ArtifactOf(visuals[k])],
        errors    |-> errs]

NoResult == [state |-> "none", parts |-> <<>>, artifacts |-> <<>>, errors |-> EmptyDict]

(***************************************************************************)
(* Requests the model draws from: datasets as materialized by the engine   *)
(* (agent_brain.py 113-117: never empty) and raw instructions as the       *)
(* language model may return them (agent_brain.py 89-100).                 *)
(***************************************************************************)
MaxIntents == 2

IndexOf(seq, x) == CHOOSE i \in 1..Len(seq) : seq[i] = x

Frame(cols, dtypes, table) ==
    [cols  |-> cols,
     dtype |-> [c \in Range(cols) |-> dtypes[IndexOf(cols, c)]],
     rows  |-> [i \in 1..Len(table) |->
                  Row(i - 1, [c \in Range(cols) |-> table[i][IndexOf(cols, c)]])]]

\* y = 2x + 1 without noise
DataReg ==
    Frame(<<"x", "y">>, <<"number", "number">>,
          << <<Num(1), Num(3)>>, <<Num(2), Num(5)>>,
             <<Num(3), Num(7)>>, <<Num(4), Num(9)>> >>)

\* a numeric column with a missing value and a column of mixed values
DataMix ==
    Frame(<<"a", "m">>, <<"number", "object">>,
          << <<Num(2), Str(1)>>, <<Null, Num(1)>>,
             <<Num(2), Str(1)>>, <<Num(1), Null>> >>)

DataOne ==
    Frame(<<"a">>, <<"number">>, << <<Num(3)>>, <<Num(1)>>, <<Num(2)>> >>)

\* eleven rows: column a holds one value more than three standard
\* deviations from its mean, column b none
DataOut ==
    Frame(<<"a", "b">>, <<"number", "number">>,
          [i \in 1..11 |-> <<IF i = 6 THEN Num(100) ELSE Num(0), Num(i % 2)>>])

\* columns that start with a missing value or have a run of them
DataLead ==
    Frame(<<"a", "b">>, <<"number", "number">>,
          << <<Null, Num(1)>>, <<Num(1), Null>>,
             <<Null, Num(2)>>, <<Null, Num(2)>> >>)

MathOp(name)          == [op |-> name, pkind |-> "None", pcts |-> <<>>]
Quantile(pkind, pcts) == [op |-> "quantile", pkind |-> pkind, pcts |-> pcts]

AbsentOps == [kind |-> "absent", math |-> <<>>, correlation |-> NoCorrelation,
              regression |-> NoRegression, visualization |-> <<>>]
EmptyOps  == [AbsentOps EXCEPT !.kind = "empty"]
FullOps ==
    [kind          |-> "given",
     math          |-> <<MathOp("sum"), Quantile("None", <<>>), MathOp("max")>>,
     correlation   |-> [kind |-> "list", methods |-> <<"spearman", "pearson">>],
     regression    |-> [present |-> TRUE, col_x |-> "x", col_y |-> "y"],
     visualization |-> <<"scatter", "bar">>]
\* a percentile of 25.0, a nested method list, a column that does not exist
BadOps ==
    [kind          |-> "given",
     math          |-> <<Quantile("None", <<>>), Quantile("list", <<2500>>)>>,
     correlation   |-> [kind |-> "nested", methods |-> <<"spearman", "pearson">>],
     regression    |-> [present |-> TRUE, col_x |-> "x", col_y |-> "nope"],
     visualization |-> <<>>]

Eq(k, v)    == [key |-> k, isList |-> FALSE, vals |-> <<v>>]
IsIn(k, vs) == [key |-> k, isList |-> TRUE, vals |-> vs]

FocusChoices  == {<<>>, <<"a">>, <<"y", "x", "zz">>, <<"zz">>}
FilterChoices == {<<>>, <<Eq("a", Num(2))>>,
                  <<IsIn("x", <<Num(1), Num(2), Num(4)>>), Eq("m", Str(1))>>,
                  <<Eq("x", Num(99))>>}
FillChoices   == {"None", "ffill", "bfill", "missing"}
DropChoices   == {"None", "drop null", "drop duplicates"}
SortChoices   == {<<>>, <<"descending">>, <<"a", "DESCENDING">>, <<"m">>,
                  <<"descending", "y", "ascending", "x">>}

Instruction(intent, ops, focus, filters, fill, drop, sort, expl, conf) ==
    [intent |-> intent, operations |-> ops, focus_columns |-> focus,
     filters |-> filters, fill |-> fill, drop |-> drop, sort |-> sort,
     analysis_explanation |-> expl, confidence |-> conf]

Request(d, has_text, raw) == [df |-> d, has_text |-> has_text, raw |-> raw]

\* every intent list up to MaxIntents, with and without operations
DispatchRequests ==
    {Request(d, TRUE, Instruction(intent, ops, <<>>, <<>>, "None", "None", <<>>,
                                  "None", conf)) :
       d \in {DataReg, DataOne, DataMix},
       intent \in SeqsBetween(Intents, 0, MaxIntents),
       ops \in {AbsentOps, FullOps, BadOps},
       conf \in {<<"absent", 0>>, <<"f", 0>>, <<"f", 5>>}}

\* every combination of preparation parameters
PrepareRequests ==
    {Request(d, TRUE, Instruction(intent, FullOps, focus, filters, fill, drop,
                                  sort, "None", <<"f", 5>>)) :
       d \in {DataReg, DataMix},
       intent \in {<<"summary">>, <<"regression", "anomaly">>},
       focus \in FocusChoices, filters \in FilterChoices, fill \in FillChoices,
       drop \in DropChoices, sort \in SortChoices}

\* the outlier dataset, whole and focused on one column
AnomalyRequests ==
    {Request(DataOut, TRUE, Instruction(intent, ops, focus, <<>>, "None", drop,
                                        <<>>, "None", <<"f", 10>>)) :
       intent \in {<<"anomaly">>, <<"math", "anomaly", "summary">>},
       ops \in {EmptyOps, FullOps},
       focus \in {<<>>, <<"a">>, <<"b", "a">>},
       drop \in {"None", "drop duplicates"}}

\* explanatory text and request text, present or not
EnvelopeRequests ==
    {Request(DataReg, has_text, Instruction(intent, FullOps, <<>>, <<>>, fill,
                                            "None", <<>>, expl, <<"f", 10>>)) :
       has_text \in BOOLEAN,
       intent \in {<<"summary">>, <<"correlation", "math">>, <<"unknown">>,
                   <<"math", "regression", "correlation">>},
       fill \in {"", "None"},
       expl \in {"", "None", "text"}}

\* a single method and lists of methods that differ after the first element
CorrelationChoices ==
    {[kind |-> "single", methods |-> <<"kendall">>],
     [kind |-> "list", methods |-> <<"spearman">>],
     [kind |-> "list", methods |-> <<"spearman", "pearson">>],
     [kind |-> "list", methods |-> <<"pearson", "spearman", "kendall">>]}

CorrelationRequests ==
    {Request(d, TRUE, Instruction(<<"correlation">>,
                                  [FullOps EXCEPT !.correlation = corr],
                                  <<>>, <<>>, "None", "None", <<>>, "None",
                                  <<"f", 5>>)) :
       d \in {DataReg, DataMix}, corr \in CorrelationChoices}

\* fill and drop on columns with leading and repeated missing values
FillDropRequests ==
    {Request(d, TRUE, Instruction(<<"summary">>, AbsentOps, <<>>, filters, fill,
                                  drop, <<>>, "None", <<"f", 5>>)) :
       d \in {DataLead, DataMix},
       filters \in {<<>>, <<IsIn("b", <<Null, Num(2)>>)>>, <<Eq("a", Num(7))>>},
       fill \in FillChoices, drop \in DropChoices}

\* sort specs that mix direction tokens, columns and unknown names
SortRequests ==
    {Request(d, TRUE, Instruction(<<"summary">>, AbsentOps, <<>>, <<>>, "None",
                                  "None", sort, "None", <<"f", 5>>)) :
       d \in {DataOne, DataReg},
       sort \in {<<"descending", "a", "Ascending">>, <<"a", "descending", "zz">>,
                 <<"descending", "ascending">>, <<"Ascending", "y", "DESCENDING", "x">>,
                 <<"x", "ascending", "DESCENDING", "x">>}}

\* intent lists with unknown among intents that have a handler
DispatchOrderRequests ==
    {Request(DataReg, TRUE, Instruction(intent, FullOps, <<>>, <<>>, "None",
                                        "None", <<>>, "None", <<"f", 5>>)) :
       intent \in {<<"anomaly", "unknown", "summary">>,
                   <<"summary", "unknown", "anomaly">>,
                   <<"unknown", "unknown", "math">>,
                   <<"math", "summary", "unknown">>}}

Requests == DispatchRequests \cup PrepareRequests \cup AnomalyRequests
               \cup EnvelopeRequests \cup CorrelationRequests
               \cup FillDropRequests \cup SortRequests
               \cup DispatchOrderRequests

(***************************************************************************)
(* The message the engine receives (agent_brain.py 33-49, 102-117)         *)
(***************************************************************************)
\* text: "none", "plain" (no JSON object in it), "json" (an inline table),
\*       "emptyjson" (an inline table whose columns are empty lists)
\* file: "none", "valid", "invalid" (validate_upload_file returns None)
Message(present, text, file) == [present |-> present, text |-> text, file |-> file]

TextKinds == {"none", "plain", "json", "emptyjson"}
FileKinds == {"none", "valid", "invalid"}

EmptyFrame == Frame(<<"a">>, <<"object">>, <<>>)

NoData == [none |-> FALSE, has_data |-> FALSE, data |-> EmptyFrame]

\* parse_input: None when a file comes with inline JSON, else the dict with
\* "data" set from the inline JSON and then from a readable file
ParseInput(msg, d) ==
    LET json_data == msg.text \in {"json", "emptyjson"}
        from_text == IF msg.text = "json"
                     THEN [NoData EXCEPT !.has_data = TRUE, !.data = d]
                     ELSE IF msg.text = "emptyjson"
                     THEN [NoData EXCEPT !.has_data = TRUE]
                     ELSE NoData
    IN IF msg.text # "none" /\ msg.file # "none" /\ json_data
       THEN [NoData EXCEPT !.none = TRUE]
       ELSE IF msg.file = "valid"
       THEN [NoData EXCEPT !.has_data = TRUE, !.data = d]
       ELSE from_text

\* the message a request of Requests arrives in
UsualMessage(req) ==
    IF req.has_text THEN Message(TRUE, "json", "none")
    ELSE Message(TRUE, "none", "valid")

\* every combination of message, text, inline table and file, with an
\* instruction that validates and one that does not
IngressArrivals ==
    {[message |-> Message(present, text, file),
      request |-> Request(DataOne, text # "none",
                     Instruction(intent, AbsentOps, <<>>, <<>>, "None", "None",
                                 <<>>, "None", <<"f", 5>>))] :
       present \in BOOLEAN, text \in TextKinds, file \in FileKinds,
       intent \in {<<>>, <<"summary">>}}

Arrivals ==
    {[message |-> UsualMessage(req), request |-> req] : req \in Requests}
       \cup IngressArrivals

(***************************************************************************)
(* State                                                                   *)
(***************************************************************************)
VARIABLES
    pc,        \* where the request is
    message,   \* the last message of the request as it arrived
    request,   \* the dataset, the raw instruction, whether text came with it
    data,      \* the validated instruction (AIParsedInstruction)
    df,        \* analyse's local df
    piped,     \* the value flowing through the pipe chain of lines 296-301
    stage,     \* the stage of PipelineOrder to run next
    errors,    \* Analysis.errors
    analyses,  \* analyse's local analyses
    metadata,  \* the metadata dict
    i,         \* position of the dispatch loop in data.intent
    calls,     \* the handlers invoked so far, in order
    produced,  \* the intents whose handler returned a result that was merged
    response   \* the task result returned to the protocol layer

vars == <<pc, message, request, data, df, piped, stage, errors, analyses, metadata, i,
          calls, produced, response>>

NoInstruction == [valid |-> FALSE]

Init ==
    /\ \E a \in Arrivals : message = a.message /\ request = a.request
    /\ pc = "receive"
    /\ data = NoInstruction
    /\ df = EmptyFrame
    /\ piped = EmptyFrame
    /\ stage = 1
    /\ errors = EmptyDict
    /\ analyses = EmptyDict
    /\ metadata = EmptyDict
    /\ i = 1
    /\ calls = <<>>
    /\ produced = <<>>
    /\ response = NoResult

EngineError(text) == [NoResult EXCEPT !.errors = DictSet(EmptyDict, "error", text)]

\* agent_brain.py 102-118: the message is taken apart and the dataset
\* materialized; parsed_data.get on the None of parse_input raises
Receive ==
    /\ pc = "receive"
    /\ LET parsed == ParseInput(message, request.df)
       IN IF ~message.present
          THEN /\ pc' = "failed"
               /\ response' = EngineError("No Message Body.")
               /\ UNCHANGED <<df, piped, metadata>>
          ELSE IF parsed.none
          THEN /\ pc' = "engine_raised"
               /\ UNCHANGED <<df, piped, metadata, response>>
          ELSE IF ~parsed.has_data \/ IsEmptyDf(parsed.data)
          THEN /\ pc' = "failed"
               /\ response' = EngineError("Failed to interpret user request.")
               /\ UNCHANGED <<df, piped, metadata>>
          ELSE /\ pc' = "interpret"
               /\ df' = parsed.data
               /\ piped' = parsed.data
               /\ metadata' = RequestMetadata(request)
               /\ UNCHANGED response
    /\ UNCHANGED <<message, request, data, stage, errors, analyses, i, calls,
                   produced>>

\* data_interpreter (agent_brain.py 93-100) and the check at lines 120-121
Interpret ==
    /\ pc = "interpret"
    /\ IF InstructionValid(request.raw)
       THEN /\ data' = ParsedInstruction(request.raw)
            /\ pc' = "entry"
            /\ UNCHANGED response
       ELSE /\ pc' = "failed"
            /\ response' = EngineError("Failed to interpret user request.")
            /\ UNCHANGED data
    /\ UNCHANGED <<message, request, df, piped, stage, errors, analyses, metadata, i, calls,
                   produced>>

\* analysis.py 282-293
EntryCheck ==
    /\ pc = "entry"
    /\ LET md == DictSet(ReturningMetadata(metadata), "status", "in_progress")
       IN IF SkipCondition(data)
          THEN LET summary == Describe(df)
               IN IF HasRaised(summary)
                  THEN /\ pc' = "raised"
                       /\ metadata' = md
                       /\ UNCHANGED analyses
                  ELSE /\ pc' = "skipped"
                       /\ metadata' = DictSet(DictSet(DictSet(md,
                              "summary", summary.val),
                              "message", "default summary only"),
                              "status", "skipped")
                       /\ analyses' = DictSet(EmptyDict, "metadata", metadata')
          ELSE /\ pc' = "prepare"
               /\ metadata' = md
               /\ UNCHANGED analyses
    /\ UNCHANGED <<message, request, data, df, piped, stage, errors, i, calls, produced,
                   response>>

\* analysis.py 295-305: one stage of the pipe chain.  df is assigned only
\* when the whole chain has returned; an exception leaves it as it was.
PrepareStage ==
    /\ pc = "prepare"
    /\ \E out \in ApplyStage(PipelineOrder[stage], piped, data) :
        /\ request' = [request EXCEPT !.df = CallerDataset(request.df, out)]
        /\ IF HasRaised(out)
           THEN /\ errors' = DictSet(errors, "Data Preparation Error", out.exc)
                /\ df' = DfAfterPipeline(df, piped, out)
                /\ pc' = "handlers"
                /\ UNCHANGED <<piped, stage>>
           ELSE IF stage = Len(PipelineOrder)
           THEN /\ df' = DfAfterPipeline(df, piped, out)
                /\ piped' = out.val
                /\ pc' = "handlers"
                /\ UNCHANGED <<errors, stage>>
           ELSE /\ piped' = out.val
                /\ stage' = stage + 1
                /\ UNCHANGED <<df, errors, pc>>
    /\ UNCHANGED <<message, data, analyses, metadata, i, calls, produced, response>>

\* analysis.py 307-336: the handler table and the explanation entry
BeginDispatch ==
    /\ pc = "handlers"
    /\ analyses' = IF data.analysis_explanation # "None"
                   THEN DictSet(analyses, "overview of the analysis",
                                data.analysis_explanation)
                   ELSE analyses
    /\ pc' = "dispatch"
    /\ UNCHANGED <<message, request, data, df, piped, stage, errors, metadata, i, calls,
                   produced, response>>

\* analysis.py 338-345: one iteration of the loop over data.intent
Dispatch ==
    /\ pc = "dispatch"
    /\ i <= Len(data.intent)
    /\ LET intent == data.intent[i]
       IN IF intent \in HandlerIntents
          THEN LET call == InvokeHandler(intent, df, data, errors)
               IN /\ calls' = Append(calls, intent)
                  /\ errors' = call.errs
                  /\ IF call.exc # "none"
                     THEN /\ pc' = "raised"
                          /\ UNCHANGED <<analyses, i, produced>>
                     ELSE /\ analyses' = MergeResult(analyses, call.ret)
                          /\ produced' = IF Truthy(call.ret)
                                          THEN Append(produced, intent)
                                          ELSE produced
                          /\ i' = i + 1
                          /\ UNCHANGED pc
          ELSE /\ i' = i + 1
               /\ UNCHANGED <<pc, calls, produced, errors, analyses>>
    /\ UNCHANGED <<message, request, data, df, piped, stage, metadata, response>>

\* analysis.py 346-355
Complete ==
    /\ pc = "dispatch"
    /\ i > Len(data.intent)
    /\ metadata' = CompletedMetadata(metadata, df, data)
    /\ analyses' = DictSet(analyses, "metadata", metadata')
    /\ pc' = "completed"
    /\ UNCHANGED <<message, request, data, df, piped, stage, errors, i, calls, produced,
                   response>>

\* agent_brain.py 124-163
Respond ==
    /\ pc \in {"completed", "skipped"}
    /\ response' = TaskResultOf(DictSet(analyses, "local_analysis",
                                        GenerateExplanation(analyses)), errors)
    /\ pc' = "responded"
    /\ UNCHANGED <<message, request, data, df, piped, stage, errors, analyses, metadata, i,
                   calls, produced>>

Next ==
    \/ Receive
    \/ Interpret
    \/ EntryCheck
    \/ PrepareStage
    \/ BeginDispatch
    \/ Dispatch
    \/ Complete
    \/ Respond

Spec == Init /\ [][Next]_vars

(***************************************************************************)
(* Properties                                                              *)
(***************************************************************************)
Status == DictGet(metadata, "status", "none")

PastEntry == pc \in {"prepare", "handlers", "dispatch", "completed", "skipped",
                     "raised", "responded"}

PastPrepare == pc \in {"handlers", "dispatch", "completed", "raised", "responded"}

PrepFailed == HasKey(errors, "Data Preparation Error")

\* C1: when analyse has ended for an instruction whose intent is [unknown]
\* and whose confidence is 0.0, the status is "skipped" and the only result
\* is the descriptive summary of the dataset as it was supplied.
C1_UnknownZeroIsSkipped ==
    (/\ pc \in {"completed", "skipped"}
     /\ data.intent = <<"unknown">>
     /\ data.confidence = Confidence(0))
    => /\ Status = "skipped"
       /\ analyses.keys = <<"metadata">>
       /\ HasKey(metadata, "summary")
       /\ metadata.vals["summary"] = Describe(request.df).val

C2ClaimedSkip(d) ==
    \/ d.intent = <<>>
    \/ Range(d.intent) = {"unknown"}
    \/ d.confidence = Confidence(0)

\* C2: past the entry check a request is on the Skipped path, with no
\* preparation stage run and no handler invoked, exactly when its intent
\* list is empty, or holds nothing but unknown, or its confidence is 0;
\* every other request is on the Preparing/Dispatching/Completed path.
C2_EntryCheckSkips ==
    PastEntry =>
       IF C2ClaimedSkip(data)
       THEN /\ Status = "skipped"
            /\ calls = <<>>
            /\ stage = 1
            /\ piped = request.df
       ELSE Status # "skipped"

\* C3: once a handler has been invoked no exception leaves the dispatch
\* loop: a failure while an intent is handled never ends analyse.
C3_HandlerFailureNeverEscapes ==
    calls # <<>> => pc # "raised"

\* C4: when a preparation stage raised, the failure is in the error map
\* under the data-preparation key, the dataset the handlers work on is the
\* one analyse was given, and the final metadata reports its columns and
\* row count; a pipeline that did not fail ran all five stages.
C4_PrepFailureRevertsDataset ==
    PastPrepare =>
       /\ PrepFailed \/ (stage = Len(PipelineOrder) /\ df = piped)
       /\ PrepFailed =>
             /\ df = request.df
             /\ (pc \in {"completed", "responded"} =>
                    /\ metadata.vals["processed_columns"] = request.df.cols
                    /\ metadata.vals["num_rows"] = NRows(request.df))

\* a stage failed after earlier stages had changed the dataset, and the
\* handlers ran to completion
C4_Witness ==
    /\ pc = "completed"
    /\ PrepFailed
    /\ piped # request.df
    /\ calls # <<>>

AfterFocus  == FocusColumns(request.df, data.focus_columns)
AfterFilter == FilterBy(AfterFocus, data.filters)
AfterFill   == Fill(AfterFilter, data.fill)
AfterDrop   == Drop(AfterFill, data.drop)

StagePrefix(k) ==
    IF k = 0 THEN request.df
    ELSE IF k = 1 THEN AfterFocus
    ELSE IF k = 2 THEN AfterFilter
    ELSE IF k = 3 THEN AfterFill
    ELSE AfterDrop

FilterKeysExcludedByFocus ==
    /\ data.focus_columns # <<>>
    /\ data.filters # <<>>
    /\ \A k \in 1..Len(data.filters) :
          data.filters[k].key \notin Range(data.focus_columns)

\* C5: the value in the pipe chain is always focus, then filter, then fill,
\* then drop applied in that order to the dataset supplied, the prepared
\* dataset is a sort of that value, and a filter whose key columns are all
\* excluded by focus_columns has removed no row.
C5_PipelineOrderFixed ==
    /\ pc = "prepare" => piped = StagePrefix(stage - 1)
    /\ (PastPrepare /\ ~PrepFailed) => Returned(df) \in Sorting(AfterDrop, data.sort)
    /\ (pc = "prepare" /\ stage \in {3, 4} /\ FilterKeysExcludedByFocus) =>
          [k \in 1..NRows(piped) |-> piped.rows[k].idx]
             = [k \in 1..NRows(request.df) |-> request.df.rows[k].idx]

\* the filter has run on a focused dataset from which its key column was
\* projected away; on the dataset supplied it would have removed rows
C5_Witness ==
    /\ pc = "prepare"
    /\ stage = 3
    /\ FilterKeysExcludedByFocus
    /\ NRows(FilterBy(request.df, data.filters)) < NRows(request.df)
    /\ NRows(piped) = NRows(request.df)

FitSucceeds(d, regres) ==
    LET r == SimpleLinearRegression(d, regres.col_x, regres.col_y)
    IN ~HasRaised(r) /\ r.val.error = "None"

\* C6: when regression is among the intents, a column pair is given and
\* the fit on the prepared dataset succeeds, the completed outcome holds a
\* regression entry with the fitted slope and intercept (2 and 1 on
\* x = [1,2,3,4], y = [3,5,7,9]) and no regression error.
C6_RegressionEntry ==
    (/\ pc = "completed"
     /\ "regression" \in Range(data.intent)
     /\ data.operations.present
     /\ data.operations.regression.present
     /\ FitSucceeds(df, data.operations.regression))
    => /\ HasKey(analyses, "regression")
       /\ ~HasKey(errors, "regression_error")
       /\ (df = DataReg =>
             LET reg == analyses.vals["regression"]
             IN /\ reg.slope[1] = 2 * reg.slope[2]
                /\ reg.intercept[1] = reg.intercept[2])

StdPositive(col) ==
    LET v == NumValues(col)
    IN \E k, l \in 1..Len(v) : v[k] # v[l]

\* C7: when every numeric column has a standard deviation above 0, the
\* anomaly result holds, for each column, exactly the values of that column
\* whose absolute z-score exceeds 3, whatever the other columns hold in the
\* same row.
C7_AnomalyPerColumn ==
    (/\ pc \in {"dispatch", "completed"}
     /\ HasKey(analyses, "zscore_anomalies")
     /\ \A c \in Range(NumericCols(df)) : StdPositive(Column(df, c)))
    => \A c \in Range(NumericCols(df)) :
          analyses.vals["zscore_anomalies"].vals[c]
             = {<<df.rows[k].idx, df.rows[k].cells[c][2]>> :
                  k \in {l \in 1..NRows(df) : ZFlagged(Column(df, c), l)}}

\* C8: when the visualization handler has been invoked with chart kinds,
\* no exception leaves it; a chart whose precondition fails is reported in
\* the visual_error list and every chart that can be rendered is among the
\* generated visuals.
C8_ChartFailuresIsolated ==
    (/\ calls # <<>>
     /\ calls[Len(calls)] = "visualization"
     /\ data.operations.present
     /\ data.operations.visualization # <<>>)
    => LET kinds == data.operations.visualization
       IN /\ pc # "raised"
          /\ (\E k \in 1..Len(kinds) : RenderChart(df, kinds[k]).kind = "str")
                => HasKey(errors, "visual_error")
          /\ \A k \in 1..Len(kinds) :
                RenderChart(df, kinds[k]).kind = "dict" =>
                   /\ HasKey(analyses, "visuals generated")
                   /\ RenderChart(df, kinds[k]).dict
                         \in Range(analyses.vals["visuals generated"])

NonVisualProduced == SelectSeq(produced, LAMBDA x : x # "visualization")

\* C9: the parts of the response to a completed request are the
\* explanation text of the instruction, when it carried one, followed by
\* one data part for every non-visualization intent that produced a
\* result, in intent order; no part is a file part.
C9_ResponsePartSequence ==
    (pc = "responded" /\ Status = "completed") =>
       LET expl  == data.analysis_explanation # "None"
           first == IF expl THEN 1 ELSE 0
       IN /\ Len(response.parts) = first + Len(NonVisualProduced)
          /\ expl => response.parts[1] = TextPart(data.analysis_explanation)
          /\ \A k \in 1..Len(response.parts) :
                k > first => response.parts[k].kind = "data"

\* C10: an error entry of a numeric handler comes with no result entry of
\* that handler, and every handler has been invoked once for each
\* occurrence of its intent that the loop has passed.
C10_ErrorMeansNoResult ==
    /\ HasKey(errors, "math_error") => ~HasKey(analyses, "math")
    /\ HasKey(errors, "correlation_error") => ~HasKey(analyses, "correlation")
    /\ HasKey(errors, "regression_error") => ~HasKey(analyses, "regression")
    /\ HasKey(errors, "anomaly_error") => ~HasKey(analyses, "zscore_anomalies")
    /\ pc = "dispatch" =>
          Len(calls) = MapCount(SubSeq(data.intent, 1, i - 1), HandlerIntents)


\* the request cannot be served: there is no message, parse_input yields no
\* non-empty dataset, or the instruction does not validate
Unserviceable ==
    LET parsed == ParseInput(message, request.df)
    IN \/ ~message.present
       \/ parsed.none
       \/ ~parsed.has_data
       \/ IsEmptyDf(parsed.data)
       \/ ~InstructionValid(request.raw)

\* C11: for every combination of message, text, inline table, file and
\* instruction, a request that yields no dataset or no instruction ends
\* with no result and an error mapping: the engine does not raise and the
\* analysis dispatcher is never entered.
C11_UnserviceableIsReported ==
    (Unserviceable /\ pc \notin {"receive", "interpret"}) =>
       /\ pc = "failed"
       /\ response.state = "none"
       /\ HasKey(response.errors, "error")
       /\ calls = <<>>
       /\ stage = 1

\* the math operations hold a quantile, and no quantile names percentiles
DefaultQuantileOnly(ops) ==
    /\ ops.present
    /\ \E k \in 1..Len(ops.math) : IsQuantile(ops.math[k])
    /\ \A k \in 1..Len(ops.math) :
          IsQuantile(ops.math[k]) => ops.math[k].pkind = "None"

C13_FirstCorrelationMethod ==
    (/\ calls # <<>>
     /\ calls[Len(calls)] = "correlation"
     /\ data.operations.correlation.kind \in {"single", "list"}) =>
       /\ HasKey(analyses, "correlation")
       /\ analyses.vals["correlation"].method = data.operations.correlation.methods[1]
       /\ analyses.vals["correlation"].columns = NumericCols(df)

\* the matrix was computed with spearman for the list [spearman, pearson]
C13_Witness ==
    /\ calls = <<"correlation">>
    /\ data.operations.correlation = [kind |-> "list",
                                      methods |-> <<"spearman", "pearson">>]
    /\ HasKey(analyses, "correlation")
    /\ analyses.vals["correlation"].method = "spearman"
    /\ errors = EmptyDict

DirectionOnly(sort) ==
    /\ sort # <<>>
    /\ \A k \in 1..Len(sort) : Lower(sort[k]) \in {"ascending", "descending"}

PositionIn(d, row) == CHOOSE p \in 1..NRows(d) : d.rows[p] = row

\* after holds the rows of before ordered by column k descending, rows
\* with equal (or two missing) values of k in the order they had in before
StableDescending(before, after, k) ==
    /\ after.cols = before.cols
    /\ NRows(after) = NRows(before)
    /\ Range(after.rows) = Range(before.rows)
    /\ \A a, b \in 1..NRows(after) : a < b =>
          /\ ~CellBefore(after.rows[b].cells[k], after.rows[a].cells[k], FALSE)
          /\ ~CellBefore(after.rows[a].cells[k], after.rows[b].cells[k], FALSE)
                => PositionIn(before, after.rows[a]) < PositionIn(before, after.rows[b])

\* C14: when the preparation has succeeded, a sort spec of direction tokens
\* only has left the rows in the order the drop stage returned them, and a
\* spec [colA, descending] has ordered them by colA descending with tied
\* rows in their input order.
C14_SortStableDescending ==
    (PastPrepare /\ ~PrepFailed) =>
       /\ DirectionOnly(data.sort) => df = AfterDrop
       /\ (/\ Len(data.sort) = 2
           /\ data.sort[1] \in ColSet(AfterDrop)
           /\ Lower(data.sort[2]) = "descending")
             => StableDescending(AfterDrop, df, data.sort[1])

IndexSeq(d) == [k \in 1..NRows(d) |-> d.rows[k].idx]

\* row p of d has, in every column, a value at or above it
Covered(d, p) ==
    \A c \in ColSet(d) : \E j \in 1..p : ~IsNull(d.rows[j].cells[c])

\* C15: when fill "ffill" and then drop "drop null" have run, the dataset
\* holds no missing value, its rows are exactly the rows of the fill
\* stage's input that have in every column a value at or above them, and
\* no row was dropped exactly when that input is empty or its first row
\* has a value in every column.
C15_FfillThenDropNull ==
    (/\ pc = "prepare"
     /\ stage = 5
     /\ data.fill = "ffill"
     /\ data.drop = "drop null") =>
       /\ \A k \in 1..NRows(piped) : ~HasNull(piped, piped.rows[k])
       /\ IndexSeq(piped)
             = IndexSeq(KeepRows(AfterFilter,
                  LAMBDA r : Covered(AfterFilter, PositionIn(AfterFilter, r))))
       /\ (NRows(piped) = NRows(AfterFilter))
             <=> (NRows(AfterFilter) = 0 \/ Covered(AfterFilter, 1))

\* the first row had a missing value and was dropped; rows below a run of
\* missing values were filled and kept
C15_Witness ==
    /\ pc = "prepare"
    /\ stage = 5
    /\ data.fill = "ffill"
    /\ data.drop = "drop null"
    /\ request.df = DataLead
    /\ data.filters = <<>>
    /\ IndexSeq(piped) = <<1, 2, 3>>
    /\ piped.rows[3].cells = [c \in {"a", "b"} |-> IF c = "a" THEN Num(1) ELSE Num(2)]

ScratchKeys == {"original_text_input", "text_instruction"}

\* C16: from the entry check on, and so on the Skipped and on the Completed
\* path alike, the metadata holds neither the original text input nor the
\* text instruction, and the metadata entry of the returned result is that
\* stripped metadata.
C16_ScratchFieldsStripped ==
    PastEntry =>
       /\ Range(metadata.keys) \cap ScratchKeys = {}
       /\ pc \in {"completed", "skipped", "responded"} =>
             /\ HasKey(analyses, "metadata")
             /\ analyses.vals["metadata"] = metadata
             /\ Range(analyses.vals["metadata"].keys) \cap ScratchKeys = {}

\* analyse has returned for a request whose metadata held both fields
C16_Witness ==
    /\ pc = "completed"
    /\ ScratchKeys \subseteq Range(RequestMetadata(request).keys)
    /\ HasKey(analyses, "metadata")
    /\ HasKey(analyses.vals["metadata"], "columns")

IsDirection(t) == Lower(t) \in {"ascending", "descending"}

\* the sort as the statement describes it: descending as soon as some
\* token is "descending", keys the tokens that name columns
StickyDescendingSort(d, sort) ==
    LET keys == SelectSeq(sort, LAMBDA t : t \in ColSet(d))
        asc  == \A k \in 1..Len(sort) : Lower(sort[k]) # "descending"
    IN IF keys = <<>> THEN {Returned(d)} ELSE SortValues(d, keys, asc)

\* the direction of the last direction token, ascending without one; keys
\* the tokens that are no direction token and name columns
LastDirectionSort(d, sort) ==
    LET keys == SelectSeq(sort, LAMBDA t : ~IsDirection(t) /\ t \in ColSet(d))
        dirs == SelectSeq(sort, IsDirection)
        asc  == dirs = <<>> \/ Lower(dirs[Len(dirs)]) = "ascending"
    IN IF keys = <<>> THEN {Returned(d)} ELSE SortValues(d, keys, asc)

\* C17 as stated: the prepared dataset is the drop stage's output sorted
\* descending whenever "descending" occurs anywhere in the spec, by the
\* tokens that name existing columns in encounter order.
C17_DescendingIsSticky ==
    (PastPrepare /\ ~PrepFailed) =>
       Returned(df) \in StickyDescendingSort(AfterDrop, data.sort)

\* C17 amended: the sort stage orders by the tokens that name existing
\* columns, in encounter order, in the direction of the last direction
\* token of the spec (ascending when there is none): what the stage may
\* return, and what it has returned, is that sort of its input.
C17_LastDirectionTokenWins ==
    /\ (pc = "prepare" /\ stage = Len(PipelineOrder)) =>
          Sorting(piped, data.sort) = LastDirectionSort(piped, data.sort)
    /\ (PastPrepare /\ ~PrepFailed) =>
          Returned(df) \in LastDirectionSort(AfterDrop, data.sort)

\* "descending" was followed by "ascending" and the rows came out ascending
C17_Witness ==
    /\ PastPrepare
    /\ ~PrepFailed
    /\ data.sort = <<"descending", "a", "Ascending">>
    /\ request.df = DataOne
    /\ IndexSeq(df) = <<1, 2, 0>>

\* C18: when the focus stage has run, without focus columns the dataset is
\* the one supplied; otherwise its columns are the requested names that
\* exist in the dataset supplied, in requested order, every row is kept
\* with its values in those columns, and no error is recorded for the
\* names that do not exist.
C18_FocusProjects ==
    (pc = "prepare" /\ stage = 2) =>
       /\ errors = EmptyDict
       /\ IF data.focus_columns = <<>>
          THEN piped = request.df
          ELSE /\ piped.cols = SelectSeq(data.focus_columns,
                                  LAMBDA c : c \in ColSet(request.df))
               /\ DOMAIN piped.dtype = Range(piped.cols)
               /\ IndexSeq(piped) = IndexSeq(request.df)
               /\ \A k \in 1..NRows(piped) :
                     /\ DOMAIN piped.rows[k].cells = Range(piped.cols)
                     /\ \A c \in Range(piped.cols) :
                           piped.rows[k].cells[c] = request.df.rows[k].cells[c]

\* y, x and an unknown name were requested of a dataset with columns x, y
C18_Witness ==
    /\ pc = "prepare"
    /\ stage = 2
    /\ data.focus_columns = <<"y", "x", "zz">>
    /\ request.df.cols = <<"x", "y">>
    /\ piped.cols = <<"y", "x">>
    /\ NRows(piped) = 4

ScalarOps(math_ops) ==
    {math_ops[k].op : k \in {j \in 1..Len(math_ops) : ~IsQuantile(math_ops[j])}}

\* C19: when the math handler has produced its result without an error,
\* no column name is a top-level key of the math entry, every requested
\* scalar aggregate has an entry under its own name that maps the numeric
\* columns to values, and the quantile entry is keyed by percentile, not
\* by column.
C19_MathKeyedByOperation ==
    ("math" \in Range(produced) /\ ~HasKey(errors, "math_error")) =>
       LET math == analyses.vals["math"]
       IN /\ Range(math.keys) \cap ColSet(df) = {}
          /\ \A o \in ScalarOps(data.operations.math) :
                HasKey(math, o) /\ math.vals[o].keys = NumericCols(df)
          /\ HasKey(math, "quantile") =>
                Range(math.vals["quantile"].keys) \cap ColSet(df) = {}

Known(intents) == SelectSeq(intents, LAMBDA t : t # "unknown")

\* the intents the loop has gone through: all before position i, and the
\* one at i when its handler raised
Dispatched ==
    IF pc = "dispatch" THEN SubSeq(data.intent, 1, i - 1)
    ELSE IF pc = "raised" THEN SubSeq(data.intent, 1, i)
    ELSE data.intent

CallsFollowIntentList ==
    (pc \in {"dispatch", "completed", "responded"} \/ (pc = "raised" /\ calls # <<>>))
       => calls = Known(Dispatched)

UnknownIsPassedOver ==
    (pc = "dispatch" /\ i <= Len(data.intent) /\ data.intent[i] = "unknown") =>
       /\ calls' = calls
       /\ analyses' = analyses
       /\ errors' = errors
       /\ produced' = produced
       /\ pc' = "dispatch"
       /\ i' = i + 1

\* C20: the handlers invoked are always those of the intents gone through
\* so far, unknown left out, in the order of the intent list; the step of
\* the loop at an unknown intent invokes nothing, changes neither the
\* results nor the error map, and moves on to the next intent.
C20_DispatchInIntentOrder ==
    [](CallsFollowIntentList) /\ [][UnknownIsPassedOver]_vars

\* a handler ran for the intent that follows an unknown one, and one ran
\* before it
C20_Witness ==
    /\ pc = "completed"
    /\ Len(data.intent) = 3
    /\ data.intent[2] = "unknown"
    /\ data.intent[1] # data.intent[3]
    /\ calls = <<data.intent[1], data.intent[3]>>

\* the instructions that agree with d on intent and confidence and differ
\* from it in the other fields
Peers(d) ==
    {[d EXCEPT !.operations = ops, !.focus_columns = focus, !.filters = filters,
               !.fill = fill, !.drop = drop, !.sort = sort,
               !.analysis_explanation = expl] :
       ops \in {NoOperations, ValidOperation(FullOps), ValidOperation(BadOps)},
       focus \in {<<>>, <<"zz">>},
       filters \in {<<>>, <<Eq("x", Num(99))>>},
       fill \in {"None", "ffill"},
       drop \in {"None", "drop null"},
       sort \in {<<>>, <<"m">>},
       expl \in {"None", "text"}}

\* C21: right after the entry check, the path this invocation took is the
\* path the entry check gives every invocation whose instruction has the
\* same intent and confidence, whatever its operations, focus columns,
\* filters, fill, drop, sort and explanation; the dataset is no input of
\* the entry check.
C21_PathDependsOnIntentAndConfidence ==
    (pc \in {"prepare", "skipped"} /\ stage = 1) =>
       \A d2 \in Peers(data) : SkipCondition(d2) <=> (Status = "skipped")

\* the entry check has been passed by an invocation with operations, a
\* sort and a fill, which has peers without any of them
C21_Witness ==
    /\ pc = "prepare"
    /\ stage = 1
    /\ data.operations.present
    /\ data.sort # <<>>
    /\ data.fill = "bfill"
    /\ request.df = DataMix
    /\ \E d2 \in Peers(data) :
          ~d2.operations.present /\ d2.sort = <<>> /\ d2.fill = "None"

\* the parameter of stage k is absent
StageIsNoOp(k, ins) ==
    \/ k = 1 /\ ins.focus_columns = <<>>
    \/ k = 2 /\ ins.filters = <<>>
    \/ k = 3 /\ ins.fill = "None"
    \/ k = 4 /\ ins.drop = "None"
    \/ k = 5 /\ ins.sort = <<>>

DatasetUntouched ==
    /\ request'.df = request.df
    /\ (pc = "prepare" /\ StageIsNoOp(stage, data)) => piped' = piped

RegressionOnEmpty ==
    /\ "regression" \in Range(calls)
    /\ data.operations.present
    /\ data.operations.regression.present
    /\ NRows(df) = 0

\* C23: when the regression handler has run on a prepared dataset whose x
\* and y columns hold no value, the error map has a regression_error (the
\* empty-data message when both columns exist), the result map has no
\* regression entry, the handler did not end analyse, and on completion
\* every intent after it has been dispatched.
C23_EmptyRegressionIsRecorded ==
    RegressionOnEmpty =>
       /\ HasKey(errors, "regression_error")
       /\ ({data.operations.regression.col_x, data.operations.regression.col_y}
              \subseteq ColSet(df)
             => errors.vals["regression_error"] = "Empty data for regression.")
       /\ ~HasKey(analyses, "regression")
       /\ pc = "raised" => calls[Len(calls)] # "regression"
       /\ pc \in {"completed", "responded"} => calls = Known(data.intent)

\* the filter left no row, regression recorded the empty-data error and
\* the anomaly handler after it ran
C23_Witness ==
    /\ pc = "completed"
    /\ RegressionOnEmpty
    /\ NRows(request.df) > 0
    /\ calls = <<"regression", "anomaly">>
    /\ HasKey(errors, "regression_error")
    /\ errors.vals["regression_error"] = "Empty data for regression."
    /\ HasKey(analyses, "zscore_anomalies")

\* the requested chart kinds that can be rendered on d, in requested order
Renderable(d, kinds) ==
    SelectSeq(kinds, LAMBDA k : RenderChart(d, k).kind = "dict")

VisualizationDispatches == Len(SelectSeq(calls, LAMBDA c : c = "visualization"))

\* one artifact per rendered chart, for every dispatch of visualization
ExpectedArtifacts(d, kinds, dispatches) ==
    LET charts == Renderable(d, kinds)
    IN [k \in 1..(Len(charts) * dispatches) |->
          LET kind == charts[((k - 1) % Len(charts)) + 1]
          IN [name |-> kind, parts |-> <<FilePart(<<"url", kind>>)>>]]

=============================================================================
